---- MODULE Spec2Model ----
(***************************************************************************)
(* Model of the yield-farm demo application: the APY curve, the return     *)
(* calculator, and the account ledger in its backend variants              *)
(*   "fileA"  file-backed server      (unnamed/part_003, lines 1-410)      *)
(*   "fileB"  file-backed server      (unnamed/part_003, lines 411-731)    *)
(*   "memory" in-memory server        (unnamed/part_004)                   *)
(*   "local"  localStorage frontend   (script.js)                          *)
(*                                                                         *)
(* Numbers.  A JavaScript number is modelled over the reals in fixed       *)
(* point.  Months and USDT amounts are carried in halves (Fix(3) is 3,     *)
(* the value 7 is 3.5); annual rates are carried in units of 1/420, which  *)
(* makes the curve's division by (maxMonths - minMonths) exact on halves.  *)
(* NaN is a distinguished value that every arithmetic operator propagates  *)
(* and every comparison answers FALSE on, as IEEE-754 does.  Rounding of   *)
(* binary floating point is not modelled.                                  *)
(***************************************************************************)
EXTENDS Integers, Sequences, FiniteSets, Bags, TLC

VARIABLES
    variant,    \* which implementation of the backend is deployed
    users,      \* the persisted store: db.users / users / mockUsers
    now,        \* Date.now()
    req,        \* the request being answered
    res,        \* its response
    created,    \* every investment acknowledged with success, as stamped
    pending,    \* async handlers suspended at their await (a bag)
    browser,    \* script.js: localStorage 'currentUser' and `let currentUser`
    settings    \* db.settings of the store that readDatabase returns

vars == <<variant, users, now, req, res, created, pending, browser, settings>>

---------------------------------------------------------------------------
(* JavaScript values                                                       *)

\* the whole number n in the fixed-point unit of months and amounts
Fix(n) == 2 * n

\* the rate p/100 (a percentage) in units of 1/420
Pct(p) == (p * 42) \div 10

Num(v) == [type |-> "number", nan |-> FALSE, val |-> v, junk |-> FALSE]
NaN == [type |-> "number", nan |-> TRUE, val |-> 0, junk |-> FALSE]
Undefined == [type |-> "undefined", nan |-> TRUE, val |-> 0, junk |-> FALSE]
\* a string that starts with the decimal numeral of v; junk: other
\* characters follow it ("500" is Str(Fix(500), FALSE), "500abc" has junk)
Str(v, j) == [type |-> "string", nan |-> FALSE, val |-> v, junk |-> j]
\* a string with no leading numeral: "" (no junk) or "abc" (junk)
StrText(j) == [type |-> "string", nan |-> TRUE, val |-> 0, junk |-> j]

\* !x is FALSE
Truthy(x) ==
    CASE x.type = "number" -> ~x.nan /\ x.val # 0
      [] x.type = "string" -> ~(x.nan /\ ~x.junk)
      [] OTHER -> FALSE

\* ToNumber, the coercion applied by Number(), Math.max, - and *
ToNumber(x) ==
    CASE x.type = "number" -> x
      [] x.type = "string" ->
            IF x.junk THEN NaN
            ELSE IF x.nan THEN Num(0)
            ELSE Num(x.val)
      [] OTHER -> NaN

\* parseFloat: the longest numeric prefix of ToString(x), NaN when none
parseFloat(x) ==
    CASE x.type = "number" -> x
      [] x.type = "string" -> IF x.nan THEN NaN ELSE Num(x.val)
      [] OTHER -> NaN

\* the integer part of v (in halves), truncated towards zero
Trunc(v) == IF v >= 0 THEN (v \div 2) * 2 ELSE -(((-v) \div 2) * 2)

\* parseInt: the integer prefix of ToString(x), NaN when none
parseInt(x) ==
    LET f == parseFloat(x)
    IN  IF f.nan THEN NaN ELSE Num(Trunc(f.val))

\* a < b on numbers: FALSE when either is NaN
Lt(a, b) == ~a.nan /\ ~b.nan /\ a.val < b.val

\* a + b on numbers of the same unit
Add(a, b) == IF a.nan \/ b.nan THEN NaN ELSE Num(a.val + b.val)

\* Number.isFinite, on the values of the model (no infinities are drawn)
IsFinite(a) == a.type = "number" /\ ~a.nan

---------------------------------------------------------------------------
(* APY curve                                                               *)

minMonths == Fix(3)
maxMonths == Fix(24)
minApy == Pct(30)
maxApy == Pct(200)

Min(a, b) == IF a < b THEN a ELSE b
Max(a, b) == IF a > b THEN a ELSE b

\* script.js, part_001, part_002: clamp(v, a, b)
clamp(v, a, b) == Min(Max(v, a), b)

InterpolateMutSlope(c) ==
    minApy + ((c - minMonths) * maxApy) \div (maxMonths - minMonths)

\* minApy + t * (maxApy - minApy) with t = (c - minMonths) / (maxMonths - minMonths)
Interpolate(c) ==
    minApy + ((c - minMonths) * (maxApy - minApy)) \div (maxMonths - minMonths)

\* the backends' apyFromTerm: Math.min(Math.max(months, minMonths), maxMonths)
apyFromTermMutNoUpper(months) ==
    LET m == ToNumber(months)
    IN  IF m.nan THEN NaN
        ELSE Num(Interpolate(Max(m.val, minMonths)))

apyFromTerm(months) ==
    LET m == ToNumber(months)
    IN  IF m.nan THEN NaN
        ELSE Num(Interpolate(Min(Max(m.val, minMonths), maxMonths)))

\* the frontends' apyFromTerm, through clamp
apyFromTermClamp(months) ==
    LET m == ToNumber(months)
    IN  IF m.nan THEN NaN
        ELSE Num(Interpolate(clamp(m.val, minMonths, maxMonths)))

\* part_003:591, the second file-backed server: no clamp
apyInline(lockPeriod) ==
    LET m == ToNumber(lockPeriod)
    IN  IF m.nan THEN NaN
        ELSE Num(Pct(30) + ((m.val - Fix(3)) * Pct(170)) \div Fix(21))

---------------------------------------------------------------------------
(* Return calculator                                                       *)
(*                                                                         *)
(* Math.pow with a fractional exponent is irrational, so a projected       *)
(* amount is kept in the closed form                                       *)
(*     coef * (num / den) ^ (exp24 / 24) - less                            *)
(* with coef and less in halves of a USDT.  The base num/den is > 1 for    *)
(* every rate of the curve, so two amounts with the same coef, base and    *)
(* less are equal exactly when their exponents are.                        *)

\* 1 + apy
OnePlus(apy) == [num |-> Pct(100) + apy.val, den |-> Pct(100), exp24 |-> 24]

\* Math.pow(x, e) for x in closed form and e in 24ths: (b^p)^e = b^(p*e)
Pow(x, e24) == [x EXCEPT !.exp24 = (x.exp24 * e24) \div 24]

\* the exponent `months` (a number in halves) in 24ths
Months24(months) == 12 * months.val

\* 1 + apy * years with years = months / 12
OnePlusSimple(apy, months) ==
    [num |-> Pct(100) * Fix(12) + apy.val * months.val,
     den |-> Pct(100) * Fix(12), exp24 |-> 24]

NaNAmount == [nan |-> TRUE, coef |-> 0, num |-> 1, den |-> 1, exp24 |-> 0, less |-> 0]

\* principal * growth
Times(principal, g) ==
    [nan |-> FALSE, coef |-> principal.val, num |-> g.num, den |-> g.den,
     exp24 |-> g.exp24, less |-> 0]

\* finalAmount - principal
Minus(amount, principal) ==
    IF amount.nan \/ principal.nan THEN NaNAmount
    ELSE [amount EXCEPT !.less = @ + principal.val]

\* A = P(1 + r)^n, n = months
MonthlyExact(principal, apy, months) ==
    IF principal.nan \/ apy.nan \/ months.nan THEN NaNAmount
    ELSE Times(principal, Pow(OnePlus(apy), Months24(months)))

\* part_002:750-753: monthlyRate = (1 + apy)^(1/12) - 1, then (1 + monthlyRate)^periods
MonthlyEffective(principal, apy, months) ==
    IF principal.nan \/ apy.nan \/ months.nan THEN NaNAmount
    ELSE Times(principal, Pow(Pow(OnePlus(apy), 2), Months24(months)))

SimpleInterestMutYears(principal, apy, months) ==
    IF principal.nan \/ apy.nan \/ months.nan THEN NaNAmount
    ELSE Times(principal, OnePlusSimple(apy, Num(months.val * 12)))

\* A = P(1 + r*t), t = months / 12
SimpleInterest(principal, apy, months) ==
    IF principal.nan \/ apy.nan \/ months.nan THEN NaNAmount
    ELSE Times(principal, OnePlusSimple(apy, months))

Absent == "undefined"

CompoundTypes == {"monthly", "simple", Absent}

CalcError(status, msg) == [status |-> status, success |-> FALSE, error |-> msg]

CalcOk(apy, finalAmount, principal, months) ==
    [status |-> 200, success |-> TRUE, error |-> "",
     apy |-> apy, finalAmount |-> finalAmount,
     interest |-> Minus(finalAmount, principal), lockPeriod |-> months]

\* POST /api/calculate
Calculate(amount, lockPeriod, compoundType) ==
    IF ~Truthy(amount) \/ ~Truthy(lockPeriod)
    THEN CalcError(400, "Amount and lock period are required")
    ELSE LET investmentAmount == parseFloat(amount)
             months == parseInt(lockPeriod)
         IN  IF Lt(investmentAmount, Num(Fix(500))) \/ Lt(Num(Fix(1000000)), investmentAmount)
             THEN CalcError(400, "Amount must be between 500 and 1,000,000 USDT")
             ELSE LET apy == apyFromTerm(months)
                      finalAmount ==
                          IF compoundType = "monthly"
                          THEN MonthlyExact(investmentAmount, apy, months)
                          ELSE SimpleInterest(investmentAmount, apy, months)
                  IN  CalcOk(apy, finalAmount, investmentAmount, months)

\* the frontends' calc(): script.js, part_001, part_002:249-283
calc(amountValue, termValue, comp) ==
    LET principal == ToNumber(amountValue)
        months == ToNumber(termValue)
    IN  IF principal.nan \/ Lt(principal, Num(Fix(500))) \/ Lt(Num(Fix(1000000)), principal)
        THEN CalcError(0, "Enter amount between 500 and 1,000,000 USDT.")
        ELSE LET apy == apyFromTermClamp(months)
                 finalAmount ==
                     IF comp = "monthly"
                     THEN MonthlyExact(principal, apy, months)
                     ELSE SimpleInterest(principal, apy, months)
             IN  CalcOk(apy, finalAmount, principal, months)

\* part_002:734-767
calcEffective(amountValue, termValue, comp) ==
    LET principal == ToNumber(amountValue)
        months == ToNumber(termValue)
    IN  IF principal.nan \/ Lt(principal, Num(Fix(500))) \/ Lt(Num(Fix(1000000)), principal)
        THEN CalcError(0, "Enter amount between 500 and 1,000,000 USDT.")
        ELSE LET apy == apyFromTermClamp(months)
                 finalAmount ==
                     IF comp = "monthly"
                     THEN MonthlyEffective(principal, apy, months)
                     ELSE SimpleInterest(principal, apy, months)
             IN  CalcOk(apy, finalAmount, principal, months)

---------------------------------------------------------------------------
(* State after start-up                                                    *)

Variants == {"fileA", "fileB", "memory"}

NoRequest == [op |-> "none"]
NoResponse == [status |-> 0, success |-> FALSE, error |-> ""]

\* no 'currentUser' item in localStorage, `let currentUser = null`
NoUser == [id |-> <<"", 0>>]
NoBrowser == [session |-> NoUser, currentUser |-> NoUser]

\* initDatabase: settings: { wallet_address: "0x71C7..." }; a store object
\* without the property has NoSettings
InitialSettings == [wallet_address |-> "0x71C7656EC7ab88b098defB751B7401B5f6d897AB"]
NoSettings == [undefined |-> TRUE]

\* initDatabase: { users: [], settings }; part_004: let users = []
InitStore ==
    /\ variant \in Variants
    /\ users = <<>>
    /\ now = 0
    /\ created = {}
    /\ pending = EmptyBag
    /\ browser = NoBrowser
    /\ settings = InitialSettings
    /\ req = NoRequest
    /\ res = NoResponse

StoreUnchanged == UNCHANGED <<variant, settings, users, now, created, pending, browser>>

---------------------------------------------------------------------------
(* Account ledger: values                                                  *)
(*                                                                         *)
(* A balance is a sum of deposits (val, in halves of a USDT) and of daily  *)
(* earnings.  A daily earning amount * dailyRate is irrational in the      *)
(* first server, so the earnings are kept as the bag of their terms        *)
(* [amount, apy, formula]; the terms of one investment are all equal.      *)
(* The file-backed servers keep the store as JSON text, where NaN is       *)
(* written as null and null counts as 0 in later arithmetic.               *)

Null == [type |-> "null", nan |-> TRUE, val |-> 0, junk |-> FALSE]

\* ToNumber on a stored value that may be null
Stored(x) == IF x.type = "null" THEN Num(0) ELSE ToNumber(x)

\* JSON.stringify then JSON.parse of a number
JsonNum(x) == IF x.type = "number" /\ x.nan THEN Null ELSE x

Money(v) == [nan |-> FALSE, null |-> FALSE, undef |-> FALSE, val |-> v, earned |-> EmptyBag]
MoneyNaN == [nan |-> TRUE, null |-> FALSE, undef |-> FALSE, val |-> 0, earned |-> EmptyBag]
MoneyNull == [nan |-> FALSE, null |-> TRUE, undef |-> FALSE, val |-> 0, earned |-> EmptyBag]
\* a property the object literal does not have
MoneyUndefined == [nan |-> FALSE, null |-> FALSE, undef |-> TRUE, val |-> 0, earned |-> EmptyBag]

JsonMoney(m) == IF m.nan THEN MoneyNull ELSE m

\* m + x for a number x
PlusNum(m, x) ==
    LET a == IF m.null THEN Money(0) ELSE m
        b == Stored(x)
    IN  IF a.nan \/ a.undef \/ b.nan THEN MoneyNaN ELSE [a EXCEPT !.val = @ + b.val]

\* m + e for a daily earning e
PlusEarning(m, e) ==
    LET a == IF m.null THEN Money(0) ELSE m
    IN  IF a.nan \/ a.undef \/ e.nan THEN MoneyNaN
        ELSE IF e.zero THEN a
        ELSE [a EXCEPT !.earned = @ (+) SetToBag({e.term})]

\* bcrypt.hash and bcrypt.compare
Hash(password) == [hashed |-> TRUE, of |-> password]
Compare(password, credential) == credential.hashed /\ credential.of = password

UserId(t) == <<"user_", t>>
InvId(t) == <<"inv_", t>>
TxId(t) == <<"tx_", t>>
EmptyId == <<"", 0>>

JsonInvestment(inv) ==
    [inv EXCEPT !.amount = JsonNum(@), !.lockPeriod = JsonNum(@), !.apy = JsonNum(@),
                !.totalEarned = JsonMoney(@)]

JsonUser(u) ==
    [u EXCEPT !.balance = JsonMoney(@), !.totalEarnings = JsonMoney(@),
              !.investments = [i \in DOMAIN @ |-> JsonInvestment(@[i])],
              !.transactions = [i \in DOMAIN @ |-> [@[i] EXCEPT !.amount = JsonNum(@)]]]

\* JSON.stringify(data, null, 2) followed by a later JSON.parse
Json(db) == [i \in DOMAIN db |-> JsonUser(db[i])]

\* Array.prototype.find: the first element that matches, 0 when none
First(S) == IF S = {} THEN 0 ELSE CHOOSE i \in S : \A j \in S : i <= j
FindByEmail(db, email) == First({i \in DOMAIN db : db[i].email = email})
FindById(db, id) == First({i \in DOMAIN db : db[i].id = id})

IsFile == variant \in {"fileA", "fileB"}

\* the users a handler works on: readDatabase().users, or the array `users`
readDatabase == users

Error(status, msg) == [status |-> status, success |-> FALSE, error |-> msg]

---------------------------------------------------------------------------
(* Bounds and inputs of the ledger                                         *)

UserLimit == 10
MaxUsers == 2
MaxInvestments == 2
MaxAccruals == 2
MaxClock == 1

Emails == {"a@x.io", "b@x.io"}
Passwords == {"pw1", "pw2"}

\* what the register form is submitted with
Registrations ==
    {<<"a@x.io", "pw1">>, <<"b@x.io", "pw2">>, <<"", "pw1">>, <<"a@x.io", "">>}

\* the accounts created since start-up (ids stamped with a clock value >= 0);
\* accounts the store already held carry earlier stamps
Registered(db) == Cardinality({i \in DOMAIN db : db[i].id[2] >= 0})

TotalInvestments(db) ==
    LET RECURSIVE Sum(_)
        Sum(i) == IF i = 0 THEN 0 ELSE Len(db[i].investments) + Sum(i - 1)
    IN  Sum(Len(db))

\* TRUE when some investment has an earnings history of n entries or more
Accrued(db, n) ==
    \E i \in DOMAIN db : \E j \in DOMAIN db[i].investments :
        Len(db[i].investments[j].weeklyEarnings) >= n

Tick ==
    /\ now < MaxClock
    /\ now' = now + 1
    /\ UNCHANGED <<variant, settings, users, req, res, created, pending, browser>>

---------------------------------------------------------------------------
(* POST /api/register                                                      *)

NewUser(email, password) ==
    [id |-> UserId(now), email |-> email, password |-> Hash(password),
     balance |-> Money(0), totalEarnings |-> Money(0),
     investments |-> <<>>, isActive |-> TRUE, transactions |-> <<>>]

RegisterRejectionMutNoDuplicateCheck(db, email, password) ==
    IF email = "" \/ password = ""
    THEN Error(400, "Email and password are required")
    ELSE IF IsFile /\ Len(db) >= UserLimit
    THEN Error(400, "Maximum user limit reached (10 users)")
    ELSE NoResponse

RegisterRejectionMutNoLimit(db, email, password) ==
    IF email = "" \/ password = ""
    THEN Error(400, "Email and password are required")
    ELSE IF FindByEmail(db, email) # 0
    THEN Error(400, "User already exists")
    ELSE NoResponse

\* the checks before `await bcrypt.hash(password, 10)`: the error they
\* answer, NoResponse when they pass
RegisterRejection(db, email, password) ==
    IF email = "" \/ password = ""
    THEN Error(400, "Email and password are required")
    ELSE IF FindByEmail(db, email) # 0
    THEN Error(400, "User already exists")
    ELSE IF IsFile /\ Len(db) >= UserLimit
    THEN Error(400, "Maximum user limit reached (10 users)")
    ELSE NoResponse

RegisterOk(newUser) ==
    [status |-> 200, success |-> TRUE, error |-> "",
     user |-> [id |-> newUser.id, email |-> newUser.email,
               balance |-> JsonMoney(newUser.balance)]]

RegisterEffectMutKeepsOnFailure(db, email, password, writeOk) ==
    LET newUser == NewUser(email, password)
    IN  IF ~IsFile
        THEN [users |-> Append(db, newUser), res |-> RegisterOk(newUser)]
        ELSE IF writeOk
        THEN [users |-> Json(Append(db, newUser)), res |-> RegisterOk(newUser)]
        ELSE [users |-> Json(Append(db, newUser)),
              res |-> Error(500, "Failed to create user")]

\* from the await on: build the user, push it onto db, write, answer.
\* db is the store read before the await (file) or the array `users` (memory)
RegisterEffect(db, email, password, writeOk) ==
    LET newUser == NewUser(email, password)
    IN  IF ~IsFile
        THEN [users |-> Append(db, newUser), res |-> RegisterOk(newUser)]
        ELSE IF writeOk
        THEN [users |-> Json(Append(db, newUser)), res |-> RegisterOk(newUser)]
        ELSE [users |-> users, res |-> Error(500, "Failed to create user")]

\* the handler run without another request in between
Register(email, password, writeOk) ==
    /\ Registered(users) < MaxUsers
    /\ IsFile \/ writeOk
    /\ req' = [op |-> "register", email |-> email, password |-> password]
    /\ UNCHANGED <<variant, settings, now, created, pending, browser>>
    /\ LET db == readDatabase
           rejection == RegisterRejection(db, email, password)
           effect == RegisterEffect(db, email, password, writeOk)
       IN  IF rejection # NoResponse
           THEN writeOk /\ res' = rejection /\ users' = users
           ELSE res' = effect.res /\ users' = effect.users

---------------------------------------------------------------------------
(* POST /api/login                                                         *)

\* the checks before `await bcrypt.compare(password, user.password)`
LoginRejection(db, email, password) ==
    IF email = "" \/ password = ""
    THEN Error(400, "Email and password are required")
    ELSE IF FindByEmail(db, email) = 0
    THEN Error(400, "User not found")
    ELSE IF IsFile /\ ~db[FindByEmail(db, email)].isActive
    THEN Error(400, "Account is deactivated")
    ELSE NoResponse

LoginOk(user) ==
    [status |-> 200, success |-> TRUE, error |-> "",
     user |-> [id |-> user.id, email |-> user.email, balance |-> user.balance,
               totalEarnings |-> user.totalEarnings, investments |-> user.investments]]

\* from the await on.  The file-backed servers set user.lastLogin (a time
\* stamp no operation reads, not carried here) in the store db they read
\* before the await, write db, and do not look at the result of the write.
LoginEffect(db, idx, password, writeOk) ==
    IF ~Compare(password, db[idx].password)
    THEN [users |-> users, res |-> Error(400, "Invalid password")]
    ELSE [users |-> IF IsFile /\ writeOk THEN Json(db) ELSE users,
          res |-> LoginOk(JsonUser(db[idx]))]

Login(email, password, writeOk) ==
    /\ req' = [op |-> "login", email |-> email, password |-> password]
    /\ UNCHANGED <<variant, settings, now, created, pending, browser>>
    /\ LET db == readDatabase
           rejection == LoginRejection(db, email, password)
           effect == LoginEffect(db, FindByEmail(db, email), password, writeOk)
       IN  IF rejection # NoResponse
           THEN writeOk /\ res' = rejection /\ users' = users
           ELSE /\ (IsFile /\ Compare(password, db[FindByEmail(db, email)].password)) \/ writeOk
                /\ res' = effect.res /\ users' = effect.users

---------------------------------------------------------------------------
(* POST /api/invest                                                        *)

\* part_003:208 and part_004:144 use the curve, part_003:591 its own formula
ApyOfVariant(lockPeriod) ==
    IF variant = "fileB" THEN apyInline(lockPeriod) ELSE apyFromTerm(lockPeriod)

NewInvestment(userId, r) ==
    [id |-> InvId(now), userId |-> userId,
     amount |-> parseFloat(r.amount),
     lockPeriod |-> parseInt(r.lockPeriod),
     compoundType |-> IF r.compoundType \in {Absent, ""} THEN "monthly" ELSE r.compoundType,
     apy |-> ApyOfVariant(r.lockPeriod),
     transactionHash |-> r.transactionHash,
     status |-> "active",
     \* part_004:146-156 has neither totalEarned nor weeklyEarnings
     totalEarned |-> IF IsFile THEN Money(0) ELSE MoneyUndefined,
     weeklyEarnings |-> <<>>]

\* user.balance += investmentAmount; investments.push; transactions.push
Deposit(user, inv) ==
    [user EXCEPT
        !.balance = PlusNum(@, inv.amount),
        !.investments = Append(@, inv),
        !.transactions =
            IF IsFile
            THEN Append(@, [id |-> TxId(now), type |-> "deposit",
                            amount |-> inv.amount, hash |-> inv.transactionHash])
            ELSE @]

InvestOk(inv, user) ==
    [status |-> 200, success |-> TRUE, error |-> "",
     investment |-> JsonInvestment(inv), newBalance |-> JsonMoney(user.balance)]

\* what is stamped on an investment when it is created
Stamp(inv) ==
    [id |-> inv.id, userId |-> inv.userId, amount |-> inv.amount,
     lockPeriod |-> inv.lockPeriod, apy |-> inv.apy]

InvestMutDepositBeforeCheck(userId, r, writeOk) ==
    /\ TotalInvestments(users) < MaxInvestments
    /\ req' = [op |-> "invest", userId |-> userId, amount |-> r.amount,
               lockPeriod |-> r.lockPeriod, compoundType |-> r.compoundType,
               transactionHash |-> r.transactionHash]
    /\ UNCHANGED <<variant, settings, now, pending, browser>>
    /\ IF userId = EmptyId \/ ~Truthy(r.amount) \/ ~Truthy(r.lockPeriod)
            \/ r.transactionHash = ""
       THEN /\ writeOk
            /\ res' = Error(400, "Missing required fields")
            /\ UNCHANGED <<users, created>>
       ELSE LET db == readDatabase
                idx == FindById(db, userId)
                investmentAmount == parseFloat(r.amount)
            IN  IF idx = 0
                THEN /\ writeOk
                     /\ res' = Error(404, "User not found")
                     /\ UNCHANGED <<users, created>>
                ELSE IF Lt(investmentAmount, Num(Fix(500)))
                        \/ Lt(Num(Fix(1000000)), investmentAmount)
                THEN /\ writeOk
                     /\ res' = Error(400, "Amount must be between 500 and 1,000,000 USDT")
                     /\ users' = [db EXCEPT ![idx] = Deposit(@, NewInvestment(userId, r))]
                     /\ UNCHANGED created
                ELSE IF IsFile /\ ToNumber(r.lockPeriod).nan
                THEN \* endDate: new Date(NaN).toISOString() throws a RangeError
                     /\ writeOk
                     /\ res' = Error(500, "RangeError: Invalid time value")
                     /\ UNCHANGED <<users, created>>
                ELSE LET inv == NewInvestment(userId, r)
                         user == Deposit(db[idx], inv)
                         db2 == [db EXCEPT ![idx] = user]
                     IN  IF IsFile
                         THEN IF writeOk
                              THEN /\ users' = Json(db2)
                                   /\ res' = InvestOk(inv, user)
                                   /\ created' = created \cup {Stamp(JsonInvestment(inv))}
                              ELSE /\ res' = Error(500, "Failed to create investment")
                                   /\ UNCHANGED <<users, created>>
                         ELSE /\ writeOk
                              /\ users' = db2
                              /\ res' = InvestOk(inv, user)
                              /\ created' = created \cup {Stamp(inv)}

Invest(userId, r, writeOk) ==
    /\ TotalInvestments(users) < MaxInvestments
    /\ req' = [op |-> "invest", userId |-> userId, amount |-> r.amount,
               lockPeriod |-> r.lockPeriod, compoundType |-> r.compoundType,
               transactionHash |-> r.transactionHash]
    /\ UNCHANGED <<variant, settings, now, pending, browser>>
    /\ IF userId = EmptyId \/ ~Truthy(r.amount) \/ ~Truthy(r.lockPeriod)
            \/ r.transactionHash = ""
       THEN /\ writeOk
            /\ res' = Error(400, "Missing required fields")
            /\ UNCHANGED <<users, created>>
       ELSE LET db == readDatabase
                idx == FindById(db, userId)
                investmentAmount == parseFloat(r.amount)
            IN  IF idx = 0
                THEN /\ writeOk
                     /\ res' = Error(404, "User not found")
                     /\ UNCHANGED <<users, created>>
                ELSE IF Lt(investmentAmount, Num(Fix(500)))
                        \/ Lt(Num(Fix(1000000)), investmentAmount)
                THEN /\ writeOk
                     /\ res' = Error(400, "Amount must be between 500 and 1,000,000 USDT")
                     /\ UNCHANGED <<users, created>>
                ELSE IF IsFile /\ ToNumber(r.lockPeriod).nan
                THEN \* endDate: new Date(NaN).toISOString() throws a RangeError
                     /\ writeOk
                     /\ res' = Error(500, "RangeError: Invalid time value")
                     /\ UNCHANGED <<users, created>>
                ELSE LET inv == NewInvestment(userId, r)
                         user == Deposit(db[idx], inv)
                         db2 == [db EXCEPT ![idx] = user]
                     IN  IF IsFile
                         THEN IF writeOk
                              THEN /\ users' = Json(db2)
                                   /\ res' = InvestOk(inv, user)
                                   /\ created' = created \cup {Stamp(JsonInvestment(inv))}
                              ELSE /\ res' = Error(500, "Failed to create investment")
                                   /\ UNCHANGED <<users, created>>
                         ELSE /\ writeOk
                              /\ users' = db2
                              /\ res' = InvestOk(inv, user)
                              /\ created' = created \cup {Stamp(inv)}

---------------------------------------------------------------------------
(* GET /api/user/:userId                                                   *)

\* the weeklyGains figure of the response is not carried
GetUser(userId) ==
    /\ req' = [op |-> "getUser", userId |-> userId]
    /\ UNCHANGED <<variant, settings, users, now, created, pending, browser>>
    /\ LET db == readDatabase
           idx == FindById(db, userId)
       IN  IF idx = 0
           THEN res' = Error(404, "User not found")
           ELSE res' = [status |-> 200, success |-> TRUE, error |-> "",
                        user |-> [id |-> db[idx].id, email |-> db[idx].email,
                                  balance |-> JsonMoney(db[idx].balance),
                                  totalEarnings |-> JsonMoney(db[idx].totalEarnings),
                                  investments |-> JsonUser(db[idx]).investments,
                                  transactions |-> JsonUser(db[idx]).transactions]]

---------------------------------------------------------------------------
(* POST /api/update-earnings (file-backed servers)                         *)

\* part_003:302-303: amount * (Math.pow(1 + apy, 1/365) - 1)
\* part_003:683:     (amount * apy) / 365
dailyEarnings(investment) ==
    LET amount == Stored(investment.amount)
        apy == Stored(investment.apy)
    IN  [nan |-> amount.nan \/ apy.nan,
         zero |-> amount.val = 0 \/ apy.val = 0,
         term |-> [amount |-> amount.val, apy |-> apy.val,
                   formula |-> IF variant = "fileA" THEN "compound365" ELSE "simple365"]]

AccrueInvestmentMutRecompute(investment) ==
    IF investment.status = "active"
    THEN [investment EXCEPT
            !.totalEarned = PlusEarning(@, dailyEarnings(investment)),
            !.apy = apyFromTerm(investment.lockPeriod),
            !.weeklyEarnings = Append(@, dailyEarnings(investment))]
    ELSE investment

\* the body of the inner forEach, on the investment
AccrueInvestment(investment) ==
    IF investment.status = "active"
    THEN [investment EXCEPT
            !.totalEarned = PlusEarning(@, dailyEarnings(investment)),
            !.weeklyEarnings = Append(@, dailyEarnings(investment))]
    ELSE investment

RECURSIVE AccrueTotalsMutSkipsRepeat(_, _)
AccrueTotalsMutSkipsRepeat(user, n) ==
    IF n = 0 THEN user
    ELSE LET u == AccrueTotalsMutSkipsRepeat(user, n - 1)
             inv == user.investments[n]
         IN  IF inv.status = "active" /\ inv.weeklyEarnings = <<>>
             THEN [u EXCEPT !.balance = PlusEarning(@, dailyEarnings(inv)),
                            !.totalEarnings = PlusEarning(@, dailyEarnings(inv))]
             ELSE u

\* user.balance and user.totalEarnings after investments 1..n were visited
RECURSIVE AccrueTotals(_, _)
AccrueTotals(user, n) ==
    IF n = 0 THEN user
    ELSE LET u == AccrueTotals(user, n - 1)
             inv == user.investments[n]
         IN  IF inv.status = "active"
             THEN [u EXCEPT !.balance = PlusEarning(@, dailyEarnings(inv)),
                            !.totalEarnings = PlusEarning(@, dailyEarnings(inv))]
             ELSE u

AccrueUser(user) ==
    [AccrueTotals(user, Len(user.investments)) EXCEPT
        !.investments = [j \in DOMAIN @ |-> AccrueInvestment(@[j])]]

UpdateEarnings(writeOk) ==
    /\ IsFile
    /\ ~Accrued(users, MaxAccruals)
    /\ req' = [op |-> "updateEarnings"]
    /\ UNCHANGED <<variant, settings, now, created, pending, browser>>
    /\ LET db == readDatabase
           db2 == [i \in DOMAIN db |-> AccrueUser(db[i])]
       IN  IF writeOk
           THEN /\ users' = Json(db2)
                /\ res' = [status |-> 200, success |-> TRUE, error |-> ""]
           ELSE /\ users' = users
                /\ res' = Error(500, "Failed to update earnings")

---------------------------------------------------------------------------
(* The ledger                                                              *)

BaseRequest ==
    [amount |-> Str(Fix(500), FALSE), lockPeriod |-> Str(Fix(12), FALSE),
     compoundType |-> "monthly", transactionHash |-> "0xabc"]

InvestAmounts ==
    {Str(Fix(499), FALSE), Str(Fix(500), FALSE), Str(Fix(1000000), FALSE),
     Str(Fix(1000001), FALSE), StrText(TRUE), StrText(FALSE)}

InvestTerms ==
    {Str(7, FALSE), Str(Fix(-1), FALSE), StrText(TRUE), Num(0)}

\* invest requests: the base request with one field varied
InvestRequests ==
    {[BaseRequest EXCEPT !.amount = a] : a \in InvestAmounts}
        \cup {[BaseRequest EXCEPT !.lockPeriod = l] : l \in InvestTerms}
        \cup {[BaseRequest EXCEPT !.compoundType = c] : c \in CompoundTypes}
        \cup {[BaseRequest EXCEPT !.transactionHash = ""]}

UserIds == {UserId(t) : t \in 0..MaxClock} \cup {EmptyId}

Next ==
    \/ Tick
    \/ \E c \in Registrations, ok \in BOOLEAN : Register(c[1], c[2], ok)
    \/ \E e \in Emails \cup {""}, pw \in Passwords, ok \in BOOLEAN : Login(e, pw, ok)
    \/ \E u \in UserIds, r \in InvestRequests, ok \in BOOLEAN : Invest(u, r, ok)
    \/ \E u \in UserIds : GetUser(u)
    \/ \E ok \in BOOLEAN : UpdateEarnings(ok)

Spec == InitStore /\ [][Next]_vars

---------------------------------------------------------------------------
(* The APY curve called on its own                                         *)

TermSlack == 6

\* lock terms in halves of a month, from 3 - TermSlack to 24 + TermSlack
TermValues ==
    (Fix(3 - TermSlack) .. Fix(24 + TermSlack)) \cup {Fix(100)}

TermArguments ==
    {Num(h) : h \in TermValues}
        \cup {Str(Fix(12), FALSE), Str(Fix(12), TRUE), StrText(TRUE), StrText(FALSE), NaN, Undefined}

ApyBackend(months) ==
    /\ req' = [op |-> "apyFromTerm", impl |-> "backend", months |-> months]
    /\ res' = [apy |-> apyFromTerm(months)]
    /\ StoreUnchanged

ApyFrontend(months) ==
    /\ req' = [op |-> "apyFromTerm", impl |-> "frontend", months |-> months]
    /\ res' = [apy |-> apyFromTermClamp(months)]
    /\ StoreUnchanged

NextApy ==
    \/ \E m \in TermArguments : ApyBackend(m)
    \/ \E m \in TermArguments : ApyFrontend(m)

SpecApy == InitStore /\ [][NextApy]_vars

---------------------------------------------------------------------------
(* The calculator called on its own                                        *)

CalcAmounts ==
    {Str(Fix(499), FALSE), Str(Fix(500), FALSE), Str(Fix(1000), FALSE),
     Str(Fix(1000000), FALSE), Str(Fix(1000001), FALSE),
     Str(Fix(500), TRUE), StrText(TRUE), StrText(FALSE), Num(Fix(1000))}

CalcTerms ==
    {Str(Fix(3), FALSE), Str(Fix(12), FALSE), Str(Fix(24), FALSE), Str(Fix(36), FALSE),
     Str(7, FALSE), Str(Fix(-1), FALSE), Str(0, FALSE), StrText(TRUE),
     Num(Fix(12)), Num(0)}

CalcServer(a, l, c) ==
    /\ req' = [op |-> "calculate", impl |-> "server", amount |-> a,
               lockPeriod |-> l, compoundType |-> c]
    /\ res' = Calculate(a, l, c)
    /\ StoreUnchanged

CalcFrontend(a, l, c) ==
    /\ req' = [op |-> "calculate", impl |-> "frontend", amount |-> a,
               lockPeriod |-> l, compoundType |-> c]
    /\ res' = calc(a, l, c)
    /\ StoreUnchanged

CalcFrontendEffective(a, l, c) ==
    /\ req' = [op |-> "calculate", impl |-> "frontendEffective", amount |-> a,
               lockPeriod |-> l, compoundType |-> c]
    /\ res' = calcEffective(a, l, c)
    /\ StoreUnchanged

NextCalc ==
    \/ \E a \in CalcAmounts, l \in CalcTerms, c \in CompoundTypes : CalcServer(a, l, c)
    \/ \E a \in CalcAmounts, l \in CalcTerms, c \in CompoundTypes : CalcFrontend(a, l, c)
    \/ \E a \in CalcAmounts, l \in CalcTerms, c \in CompoundTypes : CalcFrontendEffective(a, l, c)

SpecCalc == InitStore /\ [][NextCalc]_vars

---------------------------------------------------------------------------
(* Properties of the APY curve and the calculator                          *)

\* the curve as the specification writes it: 0.30 + (t - 3) / 21 * 1.70
CurveApy(h) == Pct(30) + ((h - Fix(3)) * Pct(170)) \div Fix(21)

IsApyCall == req.op = "apyFromTerm"

\* the argument is a number (after coercion), not NaN
TermIsNumber == IsApyCall /\ ~ToNumber(req.months).nan

TermOfCall == ToNumber(req.months).val

\* C1: for every lock term t in 3..24 every copy of apyFromTerm returns exactly
\* 0.30 + (t - 3) / 21 * 1.70, hence apy(3) = 0.30, apy(24) = 2.00,
\* apy(13.5) = 1.15, and the curve is non-decreasing on 3..24.
C1_ApyLinear ==
    /\ (TermIsNumber /\ TermOfCall \in Fix(3)..Fix(24))
          => /\ res.apy = Num(CurveApy(TermOfCall))
             /\ (TermOfCall = Fix(3) => res.apy.val = Pct(30))
             /\ (TermOfCall = Fix(24) => res.apy.val = Pct(200))
             /\ (TermOfCall = 27 => res.apy.val = Pct(115))
    /\ \A t1, t2 \in Fix(3)..Fix(24) :
          t1 <= t2 => /\ apyFromTerm(Num(t1)).val <= apyFromTerm(Num(t2)).val
                      /\ apyFromTermClamp(Num(t1)).val <= apyFromTermClamp(Num(t2)).val

C1_Witness ==
    /\ IsApyCall
    /\ req.months = Num(27)
    /\ res.apy = Num(Pct(115))

\* C2: apyFromTerm clamps: below 3 months it returns apy(3) = 0.30, above 24
\* months apy(24) = 2.00, and for every numeric term the result is in [0.30, 2.00].
C2_ApyClamps ==
    TermIsNumber
        => /\ (TermOfCall < Fix(3) => res.apy = Num(Pct(30)))
           /\ (TermOfCall > Fix(24) => res.apy = Num(Pct(200)))
           /\ ~res.apy.nan
           /\ res.apy.val >= Pct(30)
           /\ res.apy.val <= Pct(200)

C2_Witness ==
    /\ IsApyCall
    /\ req.impl = "backend"
    /\ req.months = Num(Fix(100))
    /\ res.apy = Num(Pct(200))

IsCalcCall == req.op = "calculate"

\* a plain decimal numeral (or number) for a principal within the limits
PrincipalAccepted ==
    /\ IsCalcCall
    /\ ~req.amount.nan /\ ~req.amount.junk
    /\ req.amount.val >= Fix(500) /\ req.amount.val <= Fix(1000000)

\* a plain numeral for a whole, positive number of months
TermValid ==
    /\ IsCalcCall
    /\ ~req.lockPeriod.nan /\ ~req.lockPeriod.junk
    /\ req.lockPeriod.val > 0 /\ req.lockPeriod.val % 2 = 0

\* P * (1 + apy(n)) ^ n
ClaimedMonthly(p, n) ==
    [nan |-> FALSE, coef |-> p,
     num |-> Pct(100) + CurveApy(clamp(n, Fix(3), Fix(24))), den |-> Pct(100),
     exp24 |-> 12 * n, less |-> 0]

\* P * (1 + apy(n) * n / 12)
ClaimedSimple(p, n) ==
    [nan |-> FALSE, coef |-> p,
     num |-> Pct(100) * Fix(12) + CurveApy(clamp(n, Fix(3), Fix(24))) * n,
     den |-> Pct(100) * Fix(12), exp24 |-> 24, less |-> 0]

\* C3: for every accepted principal P and term n, every implementation of the
\* calculator in mode 'monthly' returns finalAmount = P * (1 + apy(n)) ^ n.
C3_MonthlyExactEverywhere ==
    (PrincipalAccepted /\ TermValid /\ req.compoundType = "monthly")
        => /\ res.success
           /\ res.finalAmount = ClaimedMonthly(req.amount.val, req.lockPeriod.val)

\* C4: for every accepted principal P and term n the calculator in mode 'simple'
\* returns finalAmount = P * (1 + apy(n) * n / 12), and in both modes the
\* returned interest is finalAmount - P.
C4_SimpleAndInterest ==
    (PrincipalAccepted /\ TermValid)
        => /\ res.success
           /\ req.compoundType = "simple"
                 => res.finalAmount = ClaimedSimple(req.amount.val, req.lockPeriod.val)
           /\ res.interest = [res.finalAmount EXCEPT !.less = @ + req.amount.val]

C4_Witness ==
    /\ IsCalcCall
    /\ req.impl = "server"
    /\ req.amount = Str(Fix(1000), FALSE)
    /\ req.lockPeriod = Str(Fix(12), FALSE)
    /\ req.compoundType = "simple"
    /\ res.success
    /\ res.finalAmount.less = 0
    /\ res.interest.less = Fix(1000)

---------------------------------------------------------------------------
(* Properties of the ledger                                                *)

IsInvestCall == req.op = "invest"

\* every investment of the store
StoredInvestments ==
    UNION {{users[i].investments[j] : j \in DOMAIN users[i].investments} : i \in DOMAIN users}

\* x is a finite number (or its plain numeral) within the limits of a principal
AmountWithinLimits(x) ==
    /\ x.type \in {"number", "string"}
    /\ ~x.nan /\ ~x.junk
    /\ x.val >= Fix(500) /\ x.val <= Fix(1000000)

\* x is a whole, positive number of months (or its plain numeral)
TermPositiveInteger(x) ==
    /\ x.type \in {"number", "string"}
    /\ ~x.nan /\ ~x.junk
    /\ x.val > 0 /\ x.val % 2 = 0

\* C5: create_investment accepts exactly the finite amounts in [500, 1,000,000]:
\* no other amount (499, 1,000,001, one that parses to NaN) is answered with
\* success, and no amount within the limits is answered with the amount error.
C5_AmountAcceptedIffWithinLimits ==
    IsInvestCall
        => /\ res.success => AmountWithinLimits(req.amount)
           /\ res.error = "Amount must be between 500 and 1,000,000 USDT"
                 => ~AmountWithinLimits(req.amount)

\* C6: create_investment fails whenever the lock term is not a positive integer
\* (zero, negative, fractional), and stores no investment in that case.
C6_TermRejectedUnlessPositiveInteger ==
    /\ (IsInvestCall /\ ~TermPositiveInteger(req.lockPeriod)) => ~res.success
    /\ \A inv \in StoredInvestments : inv.lockPeriod.type = "number" /\ inv.lockPeriod.val > 0

\* C7: every stored investment has a finite amount with 500 <= amount <= 1,000,000.
C7_StoredAmountWithinLimits ==
    \A inv \in StoredInvestments :
        /\ IsFinite(inv.amount)
        /\ inv.amount.val >= Fix(500)
        /\ inv.amount.val <= Fix(1000000)

\* C8: every stored investment has an integer lockPeriod with 3 <= lockPeriod <= 24.
C8_StoredTermWithinRange ==
    \A inv \in StoredInvestments :
        /\ IsFinite(inv.lockPeriod)
        /\ inv.lockPeriod.val % 2 = 0
        /\ inv.lockPeriod.val >= Fix(3)
        /\ inv.lockPeriod.val <= Fix(24)

\* C9: the apy stored with an investment is the APY curve's value at the
\* investment's stored lockPeriod, whatever lockPeriod input was accepted.
C9_StoredApyIsCurveOfStoredTerm ==
    \A inv \in StoredInvestments :
        IsFinite(inv.lockPeriod)
            => inv.apy = Num(CurveApy(clamp(inv.lockPeriod.val, Fix(3), Fix(24))))

\* C10: once an investment is created its apy, amount and lockPeriod never
\* change: after any sequence of register, login, invest, get-user and
\* update-earnings operations every stored investment carries the values
\* stamped on it at creation.
C10_StampedValuesKept ==
    \A inv \in StoredInvestments : Stamp(inv) \in created

C10_Witness ==
    \E inv \in StoredInvestments :
        /\ Len(inv.weeklyEarnings) >= 1
        /\ inv.apy # apyFromTerm(inv.lockPeriod)
        /\ Stamp(inv) \in created
        /\ req.op = "getUser" /\ res.success

IsRegisterStep(email, password) == \E ok \in BOOLEAN : Register(email, password, ok)

\* C11 (as stated): a register call for an email that already belongs to a
\* stored account fails with the duplicate-email error and leaves the number
\* of accounts and every existing account unchanged.
C11_DuplicateRegisterFails ==
    [][(/\ req'.op = "register"
        /\ FindByEmail(users, req'.email) # 0
        /\ IsRegisterStep(req'.email, req'.password))
          => (res'.error = "User already exists" /\ users' = users)]_vars

\* C11 (amended): a register call with a non-empty password for an email that
\* already belongs to a stored account fails with the duplicate-email error
\* and leaves the number of accounts and every existing account unchanged.
C11_DuplicateRegisterFailsGivenPassword ==
    [][(/\ req'.op = "register"
        /\ req'.password # ""
        /\ FindByEmail(users, req'.email) # 0
        /\ IsRegisterStep(req'.email, req'.password))
          => (res'.error = "User already exists" /\ users' = users)]_vars

C11_Witness ==
    /\ req.op = "register"
    /\ req.password # ""
    /\ FindByEmail(users, req.email) # 0
    /\ res.error = "User already exists"

---------------------------------------------------------------------------
(* The servers with their await points                                     *)
(*                                                                         *)
(* POST /api/register and POST /api/login are async functions: they run    *)
(* up to `await bcrypt.hash` / `await bcrypt.compare`, other handlers run, *)
(* and they resume later.  The file-backed servers resume on the store     *)
(* object they read before the await; the in-memory server resumes on the  *)
(* live array.  POST /api/invest has no await and runs to completion.      *)

MaxPending == 2

AsyncRegistrations == {<<"a@x.io", "pw1">>, <<"b@x.io", "pw2">>}
AsyncLogins == {<<"a@x.io", "pw1">>, <<"a@x.io", "pw2">>}

Suspended(op, email, password) ==
    [op |-> op, email |-> email, password |-> password,
     db |-> IF IsFile THEN readDatabase ELSE <<>>]

\* the store a resumed handler works on
ResumedOn(p) == IF IsFile THEN p.db ELSE users

RegisterBegin(email, password) ==
    /\ BagCardinality(pending) < MaxPending
    /\ Registered(users) < MaxUsers
    /\ req' = [op |-> "register", email |-> email, password |-> password]
    /\ UNCHANGED <<variant, settings, users, now, created, browser>>
    /\ LET rejection == RegisterRejection(readDatabase, email, password)
       IN  IF rejection # NoResponse
           THEN res' = rejection /\ pending' = pending
           ELSE /\ res' = NoResponse
                /\ pending' = pending (+) SetToBag({Suspended("register", email, password)})

RegisterEnd(writeOk) ==
    \E p \in BagToSet(pending) :
        /\ p.op = "register"
        /\ IsFile \/ writeOk
        /\ req' = [op |-> "register", email |-> p.email, password |-> p.password]
        /\ pending' = pending (-) SetToBag({p})
        /\ UNCHANGED <<variant, settings, now, created, browser>>
        /\ LET effect == RegisterEffect(ResumedOn(p), p.email, p.password, writeOk)
           IN  res' = effect.res /\ users' = effect.users

LoginBegin(email, password) ==
    /\ BagCardinality(pending) < MaxPending
    /\ req' = [op |-> "login", email |-> email, password |-> password]
    /\ UNCHANGED <<variant, settings, users, now, created, browser>>
    /\ LET rejection == LoginRejection(readDatabase, email, password)
       IN  IF rejection # NoResponse
           THEN res' = rejection /\ pending' = pending
           ELSE /\ res' = NoResponse
                /\ pending' = pending (+) SetToBag({Suspended("login", email, password)})

LoginEnd(writeOk) ==
    \E p \in BagToSet(pending) :
        /\ p.op = "login"
        /\ req' = [op |-> "login", email |-> p.email, password |-> p.password]
        /\ pending' = pending (-) SetToBag({p})
        /\ UNCHANGED <<variant, settings, now, created, browser>>
        /\ LET db == ResumedOn(p)
               effect == LoginEffect(db, FindByEmail(db, p.email), p.password, writeOk)
           IN  /\ (IsFile /\ Compare(p.password, db[FindByEmail(db, p.email)].password))
                    \/ writeOk
               /\ res' = effect.res /\ users' = effect.users

NextAsync ==
    \/ Tick
    \/ \E c \in AsyncRegistrations : RegisterBegin(c[1], c[2])
    \/ \E ok \in BOOLEAN : RegisterEnd(ok)
    \/ \E c \in AsyncLogins : LoginBegin(c[1], c[2])
    \/ \E ok \in BOOLEAN : LoginEnd(ok)
    \/ \E u \in UserIds \ {EmptyId}, ok \in BOOLEAN : Invest(u, BaseRequest, ok)

SpecAsync == InitStore /\ [][NextAsync]_vars

\* C12: in every reachable state no two stored accounts have the same email,
\* also when register handlers for the same email interleave at the await on
\* the password hash.
C12_EmailsUnique ==
    \A i, j \in DOMAIN users : users[i].email = users[j].email => i = j

\* C13: two create_investment calls for the same account do not lose an
\* update: once both have answered success, the account holds both
\* investments and its balance has grown by the sum of the two principals.
C13_BothInvestmentsHeld ==
    \A s1, s2 \in created :
        (s1 # s2 /\ s1.userId = s2.userId)
            => LET idx == FindById(users, s1.userId)
               IN  /\ idx # 0
                   /\ {s1, s2} \subseteq
                          {Stamp(users[idx].investments[j]) : j \in DOMAIN users[idx].investments}
                   /\ users[idx].balance.val >= s1.amount.val + s2.amount.val

---------------------------------------------------------------------------
(* script.js: the frontend that keeps the ledger in localStorage           *)
(*                                                                         *)
(* users is the 'mockUsers' item, browser.session the 'currentUser' item   *)
(* and browser.currentUser the page's variable `currentUser`.              *)

\* a password kept as given
Plain(password) == [hashed |-> FALSE, of |-> password]

DemoId == <<"user_1", 0>>

\* initMockUsers
mockUsers ==
    <<[id |-> DemoId, email |-> "demo@yieldfarm.com", password |-> Plain("password123"),
       balance |-> Money(Fix(15000)), totalEarnings |-> Money(Fix(1250)),
       investments |-> <<>>]>>

\* JSON.stringify of an account, read back by a later JSON.parse
LocalJsonUser(u) ==
    [u EXCEPT !.balance = JsonMoney(@), !.totalEarnings = JsonMoney(@),
              !.investments = [i \in DOMAIN @ |-> JsonInvestment(@[i])]]

LocalJson(db) == [i \in DOMAIN db |-> LocalJsonUser(db[i])]

\* the page after DOMContentLoaded on a browser that never ran it before
InitLocal ==
    /\ variant = "local"
    /\ users = mockUsers
    /\ now = 0
    /\ created = {}
    /\ pending = EmptyBag
    /\ browser = NoBrowser
    /\ settings = NoSettings
    /\ req = NoRequest
    /\ res = NoResponse

registerUser(email, password) ==
    /\ Registered(users) <= MaxUsers
    /\ req' = [op |-> "register", email |-> email, password |-> password]
    /\ UNCHANGED <<variant, settings, now, created, pending>>
    /\ IF FindByEmail(users, email) # 0
       THEN res' = Error(0, "User already exists") /\ UNCHANGED <<users, browser>>
       ELSE IF Len(users) >= UserLimit
       THEN res' = Error(0, "Maximum user limit reached (10 users)")
            /\ UNCHANGED <<users, browser>>
       ELSE LET newUser == [id |-> UserId(now), email |-> email,
                            password |-> Plain(password), balance |-> Money(0),
                            totalEarnings |-> Money(0), investments |-> <<>>]
            IN  /\ users' = LocalJson(Append(users, newUser))
                /\ browser' = [browser EXCEPT !.session = LocalJsonUser(newUser)]
                /\ res' = [status |-> 0, success |-> TRUE, error |-> "",
                           user |-> [id |-> newUser.id, email |-> newUser.email,
                                     balance |-> newUser.balance]]

\* mockUsers.find(u => u.email === email && u.password === password)
FindByCredentials(db, email, password) ==
    First({i \in DOMAIN db : db[i].email = email /\ db[i].password = Plain(password)})

loginUser(email, password) ==
    /\ req' = [op |-> "login", email |-> email, password |-> password]
    /\ UNCHANGED <<variant, settings, users, now, created, pending>>
    /\ LET idx == FindByCredentials(users, email, password)
       IN  IF idx = 0
           THEN res' = Error(0, "Invalid email or password") /\ browser' = browser
           ELSE /\ browser' = [browser EXCEPT !.session = LocalJsonUser(users[idx])]
                /\ res' = [status |-> 0, success |-> TRUE, error |-> "",
                           user |-> [id |-> users[idx].id, email |-> users[idx].email,
                                     balance |-> users[idx].balance,
                                     totalEarnings |-> users[idx].totalEarnings,
                                     investments |-> users[idx].investments]]

logout ==
    /\ req' = [op |-> "logout"]
    /\ res' = NoResponse
    /\ browser' = NoBrowser
    /\ UNCHANGED <<variant, settings, users, now, created, pending>>

\* the page is loaded again: currentUser = JSON.parse(savedUser)
DOMContentLoaded ==
    /\ req' = [op |-> "load"]
    /\ res' = NoResponse
    /\ browser' = [browser EXCEPT !.currentUser = browser.session]
    /\ UNCHANGED <<variant, settings, users, now, created, pending>>

LocalInvestment(r) ==
    [id |-> InvId(now),
     amount |-> parseFloat(r.amount),
     lockPeriod |-> parseInt(r.lockPeriod),
     compoundType |-> r.compoundType,
     apy |-> apyFromTermClamp(parseInt(r.lockPeriod)),
     transactionHash |-> r.transactionHash,
     status |-> "active",
     totalEarned |-> Money(0)]

\* the click handler of the 'submit-tx' button
SubmitTx(r) ==
    /\ TotalInvestments(users) < MaxInvestments
    /\ req' = [op |-> "invest", userId |-> browser.currentUser.id, amount |-> r.amount,
               lockPeriod |-> r.lockPeriod, compoundType |-> r.compoundType,
               transactionHash |-> r.transactionHash]
    /\ UNCHANGED <<variant, settings, now, pending>>
    /\ IF browser.currentUser = NoUser
       THEN res' = Error(0, "Please login first") /\ UNCHANGED <<users, browser, created>>
       ELSE IF r.transactionHash = ""
       THEN res' = Error(0, "Please enter your transaction hash")
            /\ UNCHANGED <<users, browser, created>>
       ELSE IF Lt(parseFloat(r.amount), Num(Fix(500)))
                \/ Lt(Num(Fix(1000000)), parseFloat(r.amount))
       THEN res' = Error(0, "Amount must be between 500 and 1,000,000 USDT")
            /\ UNCHANGED <<users, browser, created>>
       ELSE LET userIndex == FindById(users, browser.currentUser.id)
                inv == LocalInvestment(r)
            IN  IF userIndex = 0
                THEN res' = NoResponse /\ UNCHANGED <<users, browser, created>>
                ELSE LET user == [users[userIndex] EXCEPT
                                     !.balance = PlusNum(@, inv.amount),
                                     !.investments = Append(@, inv)]
                     IN  /\ users' = LocalJson([users EXCEPT ![userIndex] = user])
                         /\ browser' = [session |-> LocalJsonUser(user),
                                        currentUser |-> LocalJsonUser(user)]
                         /\ created' = created \cup
                                {[id |-> inv.id, userId |-> user.id,
                                  amount |-> JsonNum(inv.amount),
                                  lockPeriod |-> JsonNum(inv.lockPeriod),
                                  apy |-> JsonNum(inv.apy)]}
                         /\ res' = [status |-> 0, success |-> TRUE, error |-> "",
                                    investment |-> JsonInvestment(inv),
                                    newBalance |-> JsonMoney(user.balance)]

LocalRegistrations ==
    {<<"a@x.io", "pw1">>, <<"demo@yieldfarm.com", "pw1">>, <<"b@x.io", "">>}

LocalLogins ==
    {<<"demo@yieldfarm.com", "password123">>, <<"demo@yieldfarm.com", "pw1">>,
     <<"a@x.io", "pw1">>, <<"b@x.io", "pw2">>}

\* what the investment form is submitted with
SubmitRequests ==
    {BaseRequest,
     [BaseRequest EXCEPT !.amount = Str(Fix(499), FALSE)],
     [BaseRequest EXCEPT !.amount = StrText(TRUE)],
     [BaseRequest EXCEPT !.transactionHash = ""]}

NextLocal ==
    \/ Tick
    \/ \E c \in LocalRegistrations : registerUser(c[1], c[2])
    \/ \E c \in LocalLogins : loginUser(c[1], c[2])
    \/ logout
    \/ DOMContentLoaded
    \/ \E r \in SubmitRequests : SubmitTx(r)

SpecLocal == InitLocal /\ [][NextLocal]_vars

---------------------------------------------------------------------------
(* Properties of authentication                                            *)

IsLoginCall == req.op = "login"

\* the account's active flag; an account without the flag counts as active
Active(user) == ("isActive" \in DOMAIN user) => user.isActive

Matches(password, credential) ==
    IF credential.hashed THEN Compare(password, credential) ELSE credential.of = password

NotFoundErrors == {"User not found"}
InvalidCredentialErrors == {"Invalid password", "Invalid email or password"}
AccountDisabledErrors == {"Account is deactivated"}

\* C14: authenticate succeeds only when an account with the given email
\* exists, is active and the password matches its credential; it fails with
\* not-found when no account has the email, with invalid-credential when the
\* password does not match, and with account-disabled when the flag is false.
C14_AuthenticateOutcomes ==
    IsLoginCall /\ res # NoResponse
        => LET idx == FindByEmail(users, req.email)
           IN  /\ res.success
                    => /\ idx # 0
                       /\ Active(users[idx])
                       /\ Matches(req.password, users[idx].password)
               /\ idx = 0 => res.error \in NotFoundErrors
               /\ (idx # 0 /\ ~Active(users[idx])) => res.error \in AccountDisabledErrors
               /\ (idx # 0 /\ Active(users[idx])
                     /\ ~Matches(req.password, users[idx].password))
                    => res.error \in InvalidCredentialErrors

---------------------------------------------------------------------------
(* Properties of create_investment as a step                               *)

\* the body of the invest request q
RequestOf(q) ==
    [amount |-> q.amount, lockPeriod |-> q.lockPeriod,
     compoundType |-> q.compoundType, transactionHash |-> q.transactionHash]

\* this step is POST /api/invest answering the request req'
IsInvestStep ==
    /\ req'.op = "invest"
    /\ \E ok \in BOOLEAN : Invest(req'.userId, RequestOf(req'), ok)

\* the step appended one active investment with nothing earned to account
\* idx, raised its balance by the principal and touched nothing else
AppendedOne(idx, principal) ==
    LET before == users[idx]
        after == users'[idx]
        n == Len(before.investments)
    IN  /\ Len(users') = Len(users)
        /\ \A k \in DOMAIN users : k # idx => users'[k] = users[k]
        /\ Len(after.investments) = n + 1
        /\ SubSeq(after.investments, 1, n) = before.investments
        /\ after.investments[n + 1].status = "active"
        /\ after.investments[n + 1].totalEarned = Money(0)
        /\ ~principal.nan
        /\ after.balance = [before.balance EXCEPT !.val = @ + principal.val]
        /\ after.totalEarnings = before.totalEarnings

\* C15: a successful create_investment for account A appends exactly one
\* investment with status 'active' and totalEarned 0 to A, increases A's
\* balance by exactly the principal, and leaves every other account and every
\* earlier investment of A unchanged.
C15_InvestAppendsOne ==
    [][(req'.op = "invest" /\ res'.success /\ IsInvestStep)
          => AppendedOne(FindById(users, req'.userId), ToNumber(req'.amount))]_vars

\* C16: a create_investment call that fails (unknown account id, empty
\* transaction reference, rejected amount) leaves the whole store unchanged:
\* no investment is added, no balance changes, no transaction record is
\* appended.
C16_FailedInvestChangesNothing ==
    [][(req'.op = "invest" /\ ~res'.success /\ IsInvestStep) => users' = users]_vars

C16_Witness ==
    /\ IsInvestCall
    /\ res.error = "Amount must be between 500 and 1,000,000 USDT"
    /\ TotalInvestments(users) >= 1

---------------------------------------------------------------------------
(* Properties of update-earnings                                           *)

\* this step is POST /api/update-earnings answering success
IsAccrualStep ==
    /\ req'.op = "updateEarnings"
    /\ res'.success
    /\ UpdateEarnings(TRUE)

\* amount * apy * (1/365) as an earning term; nothing when it is zero
SimpleDailyShare(inv) ==
    LET amount == Stored(inv.amount)
        apy == Stored(inv.apy)
    IN  IF amount.val = 0 \/ apy.val = 0
        THEN EmptyBag
        ELSE SetToBag({[amount |-> amount.val, apy |-> apy.val, formula |-> "simple365"]})

\* C17: each update-earnings call increases the totalEarned of every active
\* investment by exactly amount * apy * (1/365).
C17_AccrualIsSimpleDailyShare ==
    [][IsAccrualStep
          => \A i \in DOMAIN users : \A j \in DOMAIN users[i].investments :
                LET inv == users[i].investments[j]
                IN  inv.status = "active"
                       => users'[i].investments[j].totalEarned =
                              [inv.totalEarned EXCEPT !.earned = @ (+) SimpleDailyShare(inv)]]_vars

\* the earning a history record stands for, as a bag of at most one term
EarningOf(record) == IF record.zero THEN EmptyBag ELSE SetToBag({record.term})

\* a stored total, null counting as 0
Counted(m) == IF m.null THEN Money(0) ELSE m

\* the earnings the latest history records of investments 1..n of user stand for
RECURSIVE LatestEarnings(_, _)
LatestEarnings(user, n) ==
    IF n = 0 THEN EmptyBag
    ELSE LET inv == user.investments[n]
             h == inv.weeklyEarnings
         IN  LatestEarnings(user, n - 1)
                 (+) (IF inv.status = "active" THEN EarningOf(h[Len(h)]) ELSE EmptyBag)

\* C18: sequential update-earnings calls on an active investment each append
\* one history record and increase its totalEarned by the same delta as the
\* call before, and the owning account's balance and totalEarnings each grow
\* by the deltas of its investments, call after call (no deduplication).
C18_RepeatedAccrualAddsSameDelta ==
    [][IsAccrualStep
          => \A i \in DOMAIN users :
                LET before == users[i]
                    after == users'[i]
                    deltas == LatestEarnings(after, Len(after.investments))
                IN  /\ \A j \in DOMAIN before.investments :
                          LET h == before.investments[j].weeklyEarnings
                              h2 == after.investments[j].weeklyEarnings
                          IN  before.investments[j].status = "active"
                                => /\ Len(h2) = Len(h) + 1
                                   /\ Len(h) >= 1 => h2[Len(h2)] = h[Len(h)]
                                   /\ after.investments[j].totalEarned.earned =
                                          before.investments[j].totalEarned.earned
                                              (+) EarningOf(h2[Len(h2)])
                    /\ after.balance =
                           [Counted(before.balance) EXCEPT !.earned = @ (+) deltas]
                    /\ after.totalEarnings =
                           [Counted(before.totalEarnings) EXCEPT !.earned = @ (+) deltas]]_vars

C18_Witness ==
    /\ req.op = "updateEarnings" /\ res.success
    /\ \E i \in DOMAIN users : \E j \in DOMAIN users[i].investments :
          LET inv == users[i].investments[j]
          IN  /\ Len(inv.weeklyEarnings) >= 2
              /\ ~inv.weeklyEarnings[1].zero
              /\ CopiesIn(inv.weeklyEarnings[1].term, inv.totalEarned.earned) >= 2
              /\ CopiesIn(inv.weeklyEarnings[1].term, users[i].balance.earned) >= 2

\* an earning term that is not below zero
NonNegativeTerm(t) == (t.amount >= 0 /\ t.apy >= 0) \/ (t.amount <= 0 /\ t.apy <= 0)

\* the stored total m2 is not negative and not below the earlier total m:
\* nothing was taken from m, and what was added is not negative
NotDecreased(m, m2) ==
    LET a == Counted(m)
        b == Counted(m2)
    IN  /\ ~b.nan
        /\ b.val >= 0
        /\ b.val >= a.val
        /\ \A t \in BagToSet(a.earned) \cup BagToSet(b.earned) :
              /\ CopiesIn(t, b.earned) >= CopiesIn(t, a.earned)
              /\ CopiesIn(t, b.earned) > CopiesIn(t, a.earned) => NonNegativeTerm(t)

\* C19: across register, login, invest and update-earnings an account's
\* balance and totalEarnings and each investment's totalEarned never decrease
\* and are never negative, on both file-backed servers.
C19_TotalsNeverDecrease ==
    [][IsFile
          => \A i \in DOMAIN users \cap DOMAIN users' :
                users'[i].id = users[i].id
                    => /\ NotDecreased(users[i].balance, users'[i].balance)
                       /\ NotDecreased(users[i].totalEarnings, users'[i].totalEarnings)
                       /\ \A j \in DOMAIN users[i].investments :
                             NotDecreased(users[i].investments[j].totalEarned,
                                          users'[i].investments[j].totalEarned)]_vars

---------------------------------------------------------------------------
(* Properties of what leaves the ledger                                    *)

HasCredential(record) == "password" \in DOMAIN record

\* C20: no response of register, login, get-user or list-users contains an
\* account's password credential, and neither does what the frontend keeps
\* for the session (the 'currentUser' item and the variable currentUser).
C20_NoCredentialExposed ==
    /\ "user" \in DOMAIN res => ~HasCredential(res.user)
    /\ "users" \in DOMAIN res => \A k \in DOMAIN res.users : ~HasCredential(res.users[k])
    /\ ~HasCredential(browser.session)
    /\ ~HasCredential(browser.currentUser)

\* C21: in every reachable state of every variant's account store, the stored
\* password credential of an account is the one-way hash of the password
\* given at registration, never the plaintext password itself.
C21_CredentialsHashed ==
    \A i \in DOMAIN users : users[i].password.hashed

---------------------------------------------------------------------------
(* Properties of the store write                                           *)

\* this step is a register, invest or update-earnings handler whose
\* writeDatabase call returned false
IsFailedWriteStep ==
    /\ IsFile
    /\ \/ req'.op = "register" /\ Register(req'.email, req'.password, FALSE)
       \/ req'.op = "invest" /\ Invest(req'.userId, RequestOf(req'), FALSE)
       \/ req'.op = "updateEarnings" /\ UpdateEarnings(FALSE)

\* C22: when the store write fails during register, invest or
\* update-earnings, the request has no effect: the persisted store, which is
\* what every later request reads, is exactly the store before the request.
C22_FailedWriteHasNoEffect ==
    [][IsFailedWriteStep => (users' = users /\ readDatabase' = readDatabase)]_vars

C22_Witness ==
    /\ IsFile
    /\ res.error \in {"Failed to create user", "Failed to create investment",
                      "Failed to update earnings"}
    /\ TotalInvestments(users) >= 1

\* this step is a login handler whose writeDatabase call returned false
IsFailedLoginWriteStep ==
    /\ IsFile
    /\ req'.op = "login"
    /\ Login(req'.email, req'.password, FALSE)

\* C23: every handler that writes the store reports an error whenever the
\* write fails: no register, login, invest or update-earnings handler answers
\* success after its writeDatabase call returned failure.
C23_FailedWriteIsReported ==
    [][(IsFailedWriteStep \/ IsFailedLoginWriteStep) => ~res'.success]_vars

---------------------------------------------------------------------------
(* The file-backed servers when the file is lost                           *)
(*                                                                         *)
(* users and settings are what readDatabase returns.  When the file is     *)
(* missing, unreadable or unparsable that is the default store of the      *)
(* catch block, until a handler writes the store it holds.                 *)

\* part_003:54-61  { users: [], settings: { wallet_address } }
\* part_003:453    { users: [] }
DefaultSettings == IF variant = "fileA" THEN InitialSettings ELSE NoSettings

\* the file is deleted, made unreadable or overwritten with text that does
\* not parse
Damage ==
    /\ IsFile
    /\ users' = <<>>
    /\ settings' = DefaultSettings
    /\ UNCHANGED <<variant, now, req, res, created, pending, browser>>

\* GET /api/wallet-address
WalletAddress ==
    /\ req' = [op |-> "walletAddress"]
    /\ UNCHANGED <<variant, settings, users, now, created, pending, browser>>
    /\ res' = IF ~IsFile
              THEN [status |-> 200, success |-> TRUE, error |-> "",
                    address |-> InitialSettings.wallet_address]
              ELSE IF settings = NoSettings
              THEN Error(500, "TypeError: Cannot read properties of undefined")
              ELSE [status |-> 200, success |-> TRUE, error |-> "",
                    address |-> settings.wallet_address]

\* const { password, ...userWithoutPassword } = user
WithoutPassword(user) == [f \in DOMAIN user \ {"password"} |-> user[f]]

\* GET /api/users
ListUsers ==
    /\ IsFile
    /\ req' = [op |-> "users"]
    /\ UNCHANGED <<variant, settings, users, now, created, pending, browser>>
    /\ res' = [status |-> 200, success |-> TRUE, error |-> "",
               users |-> [k \in DOMAIN readDatabase |-> WithoutPassword(readDatabase[k])]]

DiskLogins == {<<"a@x.io", "pw1">>, <<"b@x.io", "pw1">>}

NextDisk ==
    \/ Tick
    \/ \E c \in Registrations, ok \in BOOLEAN : Register(c[1], c[2], ok)
    \/ \E c \in DiskLogins, ok \in BOOLEAN : Login(c[1], c[2], ok)
    \/ \E u \in UserIds, ok \in BOOLEAN : Invest(u, BaseRequest, ok)
    \/ \E u \in UserIds : GetUser(u)
    \/ \E ok \in BOOLEAN : UpdateEarnings(ok)
    \/ ListUsers
    \/ WalletAddress
    \/ Damage

SpecDisk == InitStore /\ [][NextDisk]_vars

\* C24: when the persisted file is missing, unreadable or unparsable,
\* readDatabase returns a valid default store with an empty account list and
\* the configured wallet address, and every handler run on it, wallet-address
\* included, returns its normal structured response instead of raising.
C24_DefaultStoreServesAll ==
    IsFile
        => /\ settings = InitialSettings
           /\ req.op = "walletAddress"
                 => (res.status = 200 /\ res.address = InitialSettings.wallet_address)
           /\ req.op \in {"users", "getUser", "register", "login", "updateEarnings"}
                 => res.error \notin {"TypeError: Cannot read properties of undefined"}

---------------------------------------------------------------------------
(* Properties of identifiers and modes                                     *)

\* the investments of the store with their places
InvestmentPlaces ==
    {<<i, j>> : i \in DOMAIN users, j \in 1..MaxInvestments}

\* C25: in every reachable state no two accounts share an id and no two
\* investments share an id, also when two registrations or two investments
\* are created without the clock (Date.now) advancing between them.
C25_IdsUnique ==
    /\ \A i, k \in DOMAIN users : users[i].id = users[k].id => i = k
    /\ \A p, q \in InvestmentPlaces :
          (/\ p[2] \in DOMAIN users[p[1]].investments
           /\ q[2] \in DOMAIN users[q[1]].investments
           /\ users[p[1]].investments[p[2]].id = users[q[1]].investments[q[2]].id)
              => p = q

\* what the calculator returns for principal and months under a mode
QuoteUnder(mode, principal, months) ==
    IF mode = "monthly"
    THEN MonthlyExact(principal, apyFromTerm(months), months)
    ELSE SimpleInterest(principal, apyFromTerm(months), months)

\* C26: every stored investment's compounding mode is 'monthly' or 'simple',
\* and the mode the calculator applies to a request is the mode
\* create_investment stores for the same compoundType input, an absent
\* compoundType included.
C26_ModeStoredIsModeApplied ==
    /\ \A inv \in StoredInvestments : inv.compoundType \in {"monthly", "simple"}
    /\ (IsInvestCall /\ res.success)
          => LET quote == Calculate(req.amount, req.lockPeriod, req.compoundType)
             IN  quote.success
                    => quote.finalAmount =
                           QuoteUnder(res.investment.compoundType,
                                      parseFloat(req.amount), parseInt(req.lockPeriod))

---------------------------------------------------------------------------
(* Properties under interleaving                                           *)

\* C27: under any interleaving of request handlers at their await points an
\* investment acknowledged with success stays in the persisted store, with
\* its balance increase: a login or register handler that read the store
\* before the investment was written and writes its snapshot afterwards does
\* not erase it.
C27_AcknowledgedInvestmentsKept ==
    \A s \in created :
        \E i \in DOMAIN users :
            /\ users[i].id = s.userId
            /\ \E j \in DOMAIN users[i].investments : Stamp(users[i].investments[j]) = s
            /\ Counted(users[i].balance).val >= Stored(s.amount).val

\* the sum of the amounts, and of the earnings, of investments 1..n of user
RECURSIVE SumOfAmounts(_, _)
SumOfAmounts(user, n) ==
    IF n = 0 THEN 0
    ELSE SumOfAmounts(user, n - 1) + Stored(user.investments[n].amount).val

RECURSIVE SumOfEarned(_, _)
SumOfEarned(user, n) ==
    IF n = 0 THEN EmptyBag
    ELSE SumOfEarned(user, n - 1) (+) Counted(user.investments[n].totalEarned).earned

\* C28: in every persisted state of the file-backed ledger each account has
\* balance = (sum of the amounts of its investments) + totalEarnings and
\* totalEarnings = sum of the totalEarned of its investments.
C28_BalanceIsDepositsPlusEarnings ==
    IsFile
        => \A i \in DOMAIN users :
              LET user == users[i]
                  n == Len(user.investments)
              IN  /\ Counted(user.totalEarnings).val = 0
                  /\ Counted(user.totalEarnings).earned = SumOfEarned(user, n)
                  /\ Counted(user.balance).val = SumOfAmounts(user, n)
                  /\ Counted(user.balance).earned = Counted(user.totalEarnings).earned

---------------------------------------------------------------------------
(* The ledger at its user limit                                            *)
(*                                                                         *)
(* The store starts with the accounts of earlier runs, one short of the    *)
(* limit of 10 (part_003:108, script.js:124).                              *)

SeedEmails ==
    <<"s1@x.io", "s2@x.io", "s3@x.io", "s4@x.io", "s5@x.io",
      "s6@x.io", "s7@x.io", "s8@x.io", "s9@x.io">>

\* an account registered before start-up, at clock value -k
SeedUser(k) ==
    IF variant = "local"
    THEN [id |-> UserId(-k), email |-> SeedEmails[k], password |-> Plain("pw1"),
          balance |-> Money(0), totalEarnings |-> Money(0), investments |-> <<>>]
    ELSE [id |-> UserId(-k), email |-> SeedEmails[k], password |-> Hash("pw1"),
          balance |-> Money(0), totalEarnings |-> Money(0),
          investments |-> <<>>, isActive |-> TRUE, transactions |-> <<>>]

\* UserLimit - 1 accounts: in script.js the demo account and eight more
SeededStore ==
    IF variant = "local"
    THEN mockUsers \o [k \in 1..(UserLimit - 2) |-> SeedUser(k)]
    ELSE [k \in 1..(UserLimit - 1) |-> SeedUser(k)]

InitCap ==
    /\ variant \in {"fileA", "fileB", "local"}
    /\ users = SeededStore
    /\ now = 0
    /\ created = {}
    /\ pending = EmptyBag
    /\ browser = NoBrowser
    /\ settings = IF variant = "local" THEN NoSettings ELSE InitialSettings
    /\ req = NoRequest
    /\ res = NoResponse

CapRegistrations == {<<"a@x.io", "pw1">>, <<"b@x.io", "pw2">>, <<"s1@x.io", "pw1">>}

NextCap ==
    \/ Tick
    \/ IsFile /\ \E c \in CapRegistrations : RegisterBegin(c[1], c[2])
    \/ IsFile /\ \E ok \in BOOLEAN : RegisterEnd(ok)
    \/ IsFile /\ \E c \in AsyncLogins \cup {<<"s1@x.io", "pw1">>} : LoginBegin(c[1], c[2])
    \/ IsFile /\ \E ok \in BOOLEAN : LoginEnd(ok)
    \/ ~IsFile /\ \E c \in CapRegistrations : registerUser(c[1], c[2])
    \/ ~IsFile /\ \E c \in LocalLogins : loginUser(c[1], c[2])

SpecCap == InitCap /\ [][NextCap]_vars

\* C29: in the file-backed and localStorage variants the number of stored
\* accounts never exceeds 10, also when several register handlers interleave
\* at the await on the password hash while the store holds 9 accounts.
C29_AtMostTenAccounts == Len(users) <= UserLimit

C29_Witness ==
    /\ Len(users) = UserLimit
    /\ req.op = "register"
    /\ res.success
    /\ \E p \in BagToSet(pending) : p.op = "register" /\ Len(p.db) = UserLimit - 1

---------------------------------------------------------------------------
(* Properties of the page session                                          *)

\* the last call was a loginUser or registerUser that returned success
Authenticated == req.op \in {"login", "register"} /\ res.success

\* C30: in the frontend, after loginUser or registerUser returns success the
\* variable currentUser is the account just authenticated, so the next
\* submit-tx click in the same page session is not answered with 'Please
\* login first'; after logout currentUser is null and submit-tx creates no
\* investment.
C30_SessionFollowsAuthentication ==
    [][/\ Authenticated' => browser'.currentUser.id = res'.user.id
       /\ (Authenticated /\ req'.op = "invest") => res'.error # "Please login first"
       /\ req'.op = "logout" => browser'.currentUser = NoUser
       /\ (req.op = "logout" /\ req'.op = "invest") => created' = created]_vars

====
